---- MODULE Spec2Model ----
(***************************************************************************)
(* Model of diagnostics/srk_diagonal.py: the entry point, the Path         *)
(* Comparison Experiment (inspect_sample) and the Convergence-Order        *)
(* Experiment (inspect_strong_order).  Every statement that calls a        *)
(* service or changes a local is one step of the program counter pc.       *)
(* sdeint, BrownianPath and Ex2.analytical_sample are services: a call     *)
(* either raises or returns a tensor of the requested shape.               *)
(***************************************************************************)
EXTENDS Integers, Sequences, FiniteSets, TLC

VARIABLES
    pc,             \* position of the single thread of control
    cfg,            \* process-wide device / dtype / seed (lines 122-124)
    exc,            \* the exception that ended the run, if any
    exitCode,       \* process exit status once the run has ended
    bmCount,        \* number of BrownianPath objects constructed so far
    calls,          \* log of the service calls made, with their arguments
    lastRet,        \* value returned by the most recent service call
    dirExists,      \* whether ./diagnostics/plots/srk_diagonal exists
    files,          \* names passed to plt.savefig, in order
    fig,            \* the current matplotlib figure (its curves)
    batch_size, d, steps, ts, y0, sde, bm,
    underscore,     \* the local named _ (lines 85-88, 103-105)
    ys_euler, ys_milstein, ys_srk, ys_analytical,
    ts_, ys_euler_, ys_milstein_, ys_srk_, ys_analytical_,  \* host copies (line 50)
    i,              \* position of the running for loop (lines 57, 83)
    dts, dt,
    euler_mses_, milstein_mses_, srk_mses_,
    euler_mse, milstein_mse, srk_mse,
    euler_mse_, milstein_mse_, srk_mse_,
    euler_slope, milstein_slope, srk_slope

env      == <<cfg, dirExists>>
ctl      == <<pc, exc, exitCode>>
svc      == <<bmCount, calls, lastRet>>
params   == <<batch_size, d, steps, ts, y0, sde>>
results  == <<underscore, ys_euler, ys_milstein, ys_srk, ys_analytical>>
series   == <<euler_mses_, milstein_mses_, srk_mses_>>
mses     == <<euler_mse, milstein_mse, srk_mse>>
mses_np  == <<euler_mse_, milstein_mse_, srk_mse_>>
slopes   == <<euler_slope, milstein_slope, srk_slope>>
arrays   == <<ts_, ys_euler_, ys_milstein_, ys_srk_, ys_analytical_>>
locals   == <<params, bm, results, arrays, i, dts, dt, series, mses, mses_np, slopes>>
vars     == <<env, ctl, svc, files, fig, locals>>

----------------------------------------------------------------------------
(* Bounds of the model.  The program's own sizes (32 x 1 x 100 grid points, *)
(* 4096 x 10, eight step sizes) are scaled down to these.                   *)
MaxBatch   == 2     \* inspect_sample: batch_size ranges over 1..MaxBatch
MaxDim     == 2     \* inspect_sample: d ranges over 1..MaxDim
MaxSteps   == 3     \* inspect_sample: steps ranges over 2..MaxSteps
OrderBatch == 2     \* inspect_strong_order: batch_size
OrderDim   == 2     \* inspect_strong_order: d
MaxDts     == 2     \* inspect_strong_order: len(dts) ranges over 2..MaxDts

Vals          == {1, 2}              \* entries of a terminal state batch
ServiceErrors == {"ServiceError"}    \* what a service call may raise

----------------------------------------------------------------------------
(* Values.  Every object is a record so that any two can be compared.      *)
None == [lib |-> "none"]

RECURSIVE Gcd(_, _)
Gcd(a, b) == IF b = 0 THEN a ELSE Gcd(b, a % b)

Abs(x) == IF x < 0 THEN -x ELSE x

\* The rational num/den in lowest terms, den > 0: the value of a float.
Frac(num, den) ==
    LET g == Gcd(Abs(num), Abs(den))
        s == IF den < 0 THEN -1 ELSE 1
    IN  [num |-> s * (num \div g), den |-> s * (den \div g)]

RECURSIVE Pow2(_)
Pow2(k) == IF k = 0 THEN 1 ELSE 2 * Pow2(k - 1)

RECURSIVE NumEl(_)
NumEl(shape) == IF shape = <<>> THEN 1 ELSE Head(shape) * NumEl(Tail(shape))

Idx(B, D) == (1..B) \X (1..D)

\* A torch tensor of the given shape whose entries are not looked at.
Opaque(shape) == [lib |-> "torch", shape |-> shape, val |-> "opaque"]

\* torch.ones(batch_size, d): line 35, line 73.
Ones(B, D) == [lib |-> "torch", shape |-> <<B, D>>, val |-> [p \in Idx(B, D) |-> 1]]

\* torch.zeros_like(y0): lines 39, 81.
ZerosLike(t) == [t EXCEPT !.val = [p \in DOMAIN t.val |-> 0]]

\* The state batches a service may return as the terminal value.
Terminals(B, D) ==
    {[lib |-> "torch", shape |-> <<B, D>>, val |-> [p \in Idx(B, D) |-> v]] : v \in Vals}

\* Ex2(d=d).to(device): lines 36, 74.
Ex2(D) == [lib |-> "sde", name |-> "Ex2", d |-> D]

\* tensor.squeeze(): every axis of size 1 is removed (lines 45-48).
Squeeze(t) == [t EXCEPT !.shape = SelectSeq(t.shape, LAMBDA n : n # 1)]

\* tensor.t() is defined for at most two axes and raises otherwise.
CanT(t) == Len(t.shape) <= 2

\* tensor.t(): swaps the axes of a 2-D tensor, returns 0-D and 1-D as is.
T(t) == IF Len(t.shape) = 2
        THEN [t EXCEPT !.shape = <<t.shape[2], t.shape[1]>>]
        ELSE t

\* to_numpy for one argument: detach, move to host, convert (utils).
to_numpy(t) == [t EXCEPT !.lib = "numpy"]

\* Iterating an ndarray: over its first axis; a 0-d array cannot be iterated.
Iterable(a) == Len(a.shape) >= 1
NumRows(a)  == a.shape[1]
Row(a)      == [a EXCEPT !.shape = Tail(a.shape)]

\* len(zip(a, b, c, e)): the shortest of the four.
Min(a, b) == IF a <= b THEN a ELSE b
ZipLen(a, b, c, e) == Min(Min(NumRows(a), NumRows(b)), Min(NumRows(c), NumRows(e)))

\* plt.plot(x, y): both are made at least 1-D and must agree on the first axis.
FirstDim(a) == IF a.shape = <<>> THEN 1 ELSE a.shape[1]
PlotOk(x, y) == FirstDim(x) = FirstDim(y)

\* f'{i}' for a loop index, line 65.
FileName(k) == ToString(k)

RECURSIVE SumSq(_, _, _)
SumSq(x, y, S) ==
    IF S = {} THEN 0
    ELSE LET p == CHOOSE q \in S : TRUE
         IN  (x[p] - y[p]) * (x[p] - y[p]) + SumSq(x, y, S \ {p})

\* compute_mse is defined for two batches of one shape and fails otherwise.
MseDefined(x, y) == x.shape = y.shape

\* Variant of compute_mse: the squared norm over the dimension axis, averaged
\* over the batch axis only.
compute_mse_NormThenMean(x, y) ==
    [lib |-> "torch", shape |-> <<>>,
     val |-> Frac(SumSq(x.val, y.val, DOMAIN x.val), x.shape[1])]

\* compute_mse(x, y): the mean over every entry of the squared difference,
\* a 0-d tensor.
compute_mse(x, y) ==
    [lib |-> "torch", shape |-> <<>>,
     val |-> Frac(SumSq(x.val, y.val, DOMAIN x.val), NumEl(x.shape))]

----------------------------------------------------------------------------
(* Service calls.                                                          *)
Schemes == {"euler", "milstein", "srk"}
Methods == Schemes \cup {"analytical"}

\* options= of the call: only srk is given one (lines 42, 87).
Options(m) == IF m = "srk" THEN [trapezoidal_approx |-> FALSE] ELSE None

\* What one call passes to the service; dt is None for analytical_sample.
CallWith(fn, m, f, y, grid, step, w, pass, out) ==
    [fn |-> fn, method |-> m, sde |-> f, y0 |-> y, ts |-> grid,
     dt |-> IF m = "analytical" THEN None ELSE step,
     bm |-> w, options |-> Options(m), iter |-> pass, outcome |-> out]

CallRec(fn, m, out) == CallWith(fn, m, sde, y0, ts, dt, bm, i, out)

\* BrownianPath(t0=t0, w0=torch.zeros_like(y0)): a new realization.
BrownianPath(id, w0) == [lib |-> "bm", id |-> id, t0 |-> 0, w0 |-> w0]

\* An uncaught exception ends the process with a traceback and status 1.
Raise(e) ==
    /\ pc' = "failed"
    /\ exc' = [err |-> e, at |-> pc]
    /\ exitCode' = 1

Running == UNCHANGED <<exc, exitCode>>

\* The locals of a function frame before any is bound, and after it returns.
Unbound ==
    /\ batch_size = 0 /\ d = 0 /\ steps = 0
    /\ ts = None /\ y0 = None /\ sde = None /\ bm = None
    /\ underscore = None
    /\ ys_euler = None /\ ys_milstein = None /\ ys_srk = None /\ ys_analytical = None
    /\ ts_ = None
    /\ ys_euler_ = None /\ ys_milstein_ = None /\ ys_srk_ = None /\ ys_analytical_ = None
    /\ i = 0 /\ dts = <<>> /\ dt = None
    /\ euler_mses_ = <<>> /\ milstein_mses_ = <<>> /\ srk_mses_ = <<>>
    /\ euler_mse = None /\ milstein_mse = None /\ srk_mse = None
    /\ euler_mse_ = None /\ milstein_mse_ = None /\ srk_mse_ = None
    /\ euler_slope = None /\ milstein_slope = None /\ srk_slope = None

DropFrame ==
    /\ batch_size' = 0 /\ d' = 0 /\ steps' = 0
    /\ ts' = None /\ y0' = None /\ sde' = None /\ bm' = None
    /\ underscore' = None
    /\ ys_euler' = None /\ ys_milstein' = None /\ ys_srk' = None /\ ys_analytical' = None
    /\ ts_' = None
    /\ ys_euler_' = None /\ ys_milstein_' = None /\ ys_srk_' = None /\ ys_analytical_' = None
    /\ i' = 0 /\ dts' = <<>> /\ dt' = None
    /\ euler_mses_' = <<>> /\ milstein_mses_' = <<>> /\ srk_mses_' = <<>>
    /\ euler_mse' = None /\ milstein_mse' = None /\ srk_mse' = None
    /\ euler_mse_' = None /\ milstein_mse_' = None /\ srk_mse_' = None
    /\ euler_slope' = None /\ milstein_slope' = None /\ srk_slope' = None

Init ==
    /\ pc = "main"
    /\ cfg = None
    /\ exc = None
    /\ exitCode = -1
    /\ bmCount = 0
    /\ calls = <<>>
    /\ lastRet = None
    /\ dirExists \in BOOLEAN
    /\ files = <<>>
    /\ fig = None
    /\ Unbound

----------------------------------------------------------------------------
(* __main__, lines 121-127.                                                *)

\* Lines 122-124: device, default dtype, seed.
MainConfigure ==
    /\ pc = "main"
    /\ cfg' = [lib |-> "config", device |-> "cuda if available else cpu",
               dtype |-> "float64", seed |-> 0]
    /\ pc' = "main_sample"
    /\ Running
    /\ UNCHANGED <<dirExists, svc, files, fig, locals>>

\* Variant of MainCallSample: the convergence experiment is run first.
MainCallSample_OrderFirst ==
    /\ pc = "main_sample"
    /\ pc' = "o_init"
    /\ Running
    /\ UNCHANGED <<env, svc, files, fig, locals>>

\* Line 126: inspect_sample() is entered.
MainCallSample ==
    /\ pc = "main_sample"
    /\ pc' = "s_init"
    /\ Running
    /\ UNCHANGED <<env, svc, files, fig, locals>>

\* Line 127: inspect_strong_order() is entered.
MainCallOrder ==
    /\ pc = "main_order"
    /\ pc' = "o_init"
    /\ Running
    /\ UNCHANGED <<env, svc, files, fig, locals>>

----------------------------------------------------------------------------
(* inspect_sample, lines 28-66.                                            *)

\* Lines 29-36.  device is read from the module globals.
SampleInit ==
    /\ pc = "s_init"
    /\ cfg # None
    /\ \E B \in 1..MaxBatch, D \in 1..MaxDim, n \in 2..MaxSteps :
          /\ batch_size' = B
          /\ d' = D
          /\ steps' = n
          /\ ts' = Opaque(<<n>>)
          /\ y0' = Ones(B, D)
          /\ sde' = Ex2(D)
    /\ dt' = Frac(1, 10)
    /\ pc' = "s_bm"
    /\ Running
    /\ UNCHANGED <<env, svc, files, fig, bm, results, arrays, i, dts, series, mses,
                   mses_np, slopes>>

\* Line 39.
SampleBm ==
    /\ pc = "s_bm"
    /\ bmCount' = bmCount + 1
    /\ bm' = BrownianPath(bmCount + 1, ZerosLike(y0))
    /\ pc' = "s_euler"
    /\ Running
    /\ UNCHANGED <<env, calls, lastRet, files, fig, params, results, arrays, i, dts, dt,
                   series, mses, mses_np, slopes>>

\* Line 39, the constructor raising.
SampleBmFail ==
    /\ pc = "s_bm"
    /\ \E e \in ServiceErrors : Raise(e)
    /\ UNCHANGED <<env, svc, files, fig, locals>>

SampleAfter(m) ==
    CASE m = "euler"      -> "s_milstein"
      [] m = "milstein"   -> "s_srk"
      [] m = "srk"        -> "s_analytical"
      [] m = "analytical" -> "s_squeeze"

\* Lines 40-43: one call, returning the trajectory on the whole grid.
SampleCall(m) ==
    /\ pc = "s_" \o m
    /\ LET r == Opaque(<<steps, batch_size, d>>)
       IN  /\ lastRet' = r
           /\ ys_euler'      = IF m = "euler"      THEN r ELSE ys_euler
           /\ ys_milstein'   = IF m = "milstein"   THEN r ELSE ys_milstein
           /\ ys_srk'        = IF m = "srk"        THEN r ELSE ys_srk
           /\ ys_analytical' = IF m = "analytical" THEN r ELSE ys_analytical
    /\ calls' = Append(calls, CallRec("inspect_sample", m, "ok"))
    /\ pc' = SampleAfter(m)
    /\ Running
    /\ UNCHANGED <<env, bmCount, files, fig, params, bm, underscore, arrays, i, dts, dt,
                   series, mses, mses_np, slopes>>

\* Lines 40-43: the call raising; nothing is bound and the error propagates.
SampleCallFail(m) ==
    /\ pc = "s_" \o m
    /\ \E e \in ServiceErrors :
          /\ calls' = Append(calls, CallRec("inspect_sample", m, e))
          /\ Raise(e)
    /\ UNCHANGED <<env, bmCount, lastRet, files, fig, locals>>

\* Lines 45-48: squeeze().t() of each result, in order.
SampleSqueeze ==
    /\ pc = "s_squeeze"
    /\ CanT(Squeeze(ys_euler)) /\ CanT(Squeeze(ys_milstein))
    /\ CanT(Squeeze(ys_srk)) /\ CanT(Squeeze(ys_analytical))
    /\ ys_euler' = T(Squeeze(ys_euler))
    /\ ys_milstein' = T(Squeeze(ys_milstein))
    /\ ys_srk' = T(Squeeze(ys_srk))
    /\ ys_analytical' = T(Squeeze(ys_analytical))
    /\ pc' = "s_numpy"
    /\ Running
    /\ UNCHANGED <<env, svc, files, fig, params, bm, underscore, arrays, i, dts, dt,
                   series, mses, mses_np, slopes>>

\* Lines 45-48: t() of a tensor with more than two axes raises.
SampleSqueezeFail ==
    /\ pc = "s_squeeze"
    /\ \/ ~CanT(Squeeze(ys_euler)) \/ ~CanT(Squeeze(ys_milstein))
       \/ ~CanT(Squeeze(ys_srk)) \/ ~CanT(Squeeze(ys_analytical))
    /\ Raise("RuntimeError")
    /\ UNCHANGED <<env, svc, files, fig, locals>>

\* Lines 50-51.
SampleToNumpy ==
    /\ pc = "s_numpy"
    /\ ts_' = to_numpy(ts)
    /\ ys_euler_' = to_numpy(ys_euler)
    /\ ys_milstein_' = to_numpy(ys_milstein)
    /\ ys_srk_' = to_numpy(ys_srk)
    /\ ys_analytical_' = to_numpy(ys_analytical)
    /\ pc' = "s_mkdir"
    /\ Running
    /\ UNCHANGED <<env, svc, files, fig, params, bm, results, i, dts, dt, series, mses,
                   mses_np, slopes>>

\* Lines 54-55: makedirs_if_not_found(img_dir).
SampleMkdir ==
    /\ pc = "s_mkdir"
    /\ dirExists' = TRUE
    /\ pc' = "s_for"
    /\ Running
    /\ UNCHANGED <<cfg, svc, files, fig, locals>>

SampleRowsOk ==
    /\ Iterable(ys_euler_) /\ Iterable(ys_milstein_)
    /\ Iterable(ys_srk_) /\ Iterable(ys_analytical_)

SamplePlotsOk ==
    /\ PlotOk(ts_, Row(ys_euler_)) /\ PlotOk(ts_, Row(ys_milstein_))
    /\ PlotOk(ts_, Row(ys_srk_)) /\ PlotOk(ts_, Row(ys_analytical_))

SampleMore ==
    /\ SampleRowsOk
    /\ i < ZipLen(ys_euler_, ys_milstein_, ys_srk_, ys_analytical_)

\* Lines 57-66, one pass of the loop: a figure with four curves is saved under
\* the name of the index and closed.
SamplePlot ==
    /\ pc = "s_for"
    /\ SampleMore
    /\ SamplePlotsOk
    /\ files' = Append(files, FileName(i))
    /\ fig' = None
    /\ i' = i + 1
    /\ Running
    /\ UNCHANGED <<pc, env, svc, params, bm, results, arrays, dts, dt, series, mses,
                   mses_np, slopes>>

\* Lines 57-63: iterating a 0-d array raises TypeError; plt.plot raises
\* ValueError when x and y differ on the first axis.  The figure stays open.
SamplePlotFail ==
    /\ pc = "s_for"
    /\ \/ ~SampleRowsOk
       \/ SampleMore /\ ~SamplePlotsOk
    /\ IF SampleRowsOk
       THEN /\ Raise("ValueError")
            /\ fig' = [lib |-> "figure", curves |-> <<>>]
       ELSE /\ Raise("TypeError")
            /\ fig' = fig
    /\ UNCHANGED <<env, svc, files, locals>>

\* Line 57: the iterator is exhausted.
SampleLoopEnd ==
    /\ pc = "s_for"
    /\ SampleRowsOk
    /\ ~SampleMore
    /\ pc' = "s_return"
    /\ Running
    /\ UNCHANGED <<env, svc, files, fig, locals>>

\* The function returns to line 126; its frame is dropped.
SampleReturn ==
    /\ pc = "s_return"
    /\ DropFrame
    /\ pc' = "main_order"
    /\ Running
    /\ UNCHANGED <<env, svc, files, fig>>

----------------------------------------------------------------------------
(* Regression, lines 101-105.  Step sizes and the errors of the model are  *)
(* powers of two, so logarithms are exact in units of ln 2; a slope is a   *)
(* ratio of logarithms and does not depend on the unit.                    *)

RAdd(a, b) == Frac(a.num * b.den + b.num * a.den, a.den * b.den)
RSub(a, b) == Frac(a.num * b.den - b.num * a.den, a.den * b.den)
RMul(a, b) == Frac(a.num * b.num, a.den * b.den)
RDiv(a, b) == Frac(a.num * b.den, a.den * b.num)

Fin(q)   == [kind |-> "fin", q |-> q]
MinusInf == [kind |-> "-inf", q |-> Frac(0, 1)]
PlusInf  == [kind |-> "inf", q |-> Frac(0, 1)]
NaN      == [kind |-> "nan", q |-> Frac(0, 1)]

Log2Int(n) == CHOOSE k \in 0..n : Pow2(k) = n

\* np.log of one number: -inf at zero (a warning, no exception).
NpLog(q) == IF q.num = 0 THEN MinusInf
            ELSE Fin(Frac(Log2Int(q.num) - Log2Int(q.den), 1))

\* The float held by a list element: a Python float or a 0-d array.
Value(x) == IF "val" \in DOMAIN x THEN x.val ELSE x

\* log = lambda x: np.log(np.array(x)), line 102.
log(xs) == [k \in 1..Len(xs) |-> NpLog(Value(xs[k]))]

\* array / 2, elementwise.
Halve(ys) == [k \in 1..Len(ys) |->
                IF ys[k].kind = "fin" THEN Fin(RMul(ys[k].q, Frac(1, 2))) ELSE ys[k]]

RECURSIVE RSum(_)
RSum(qs) == IF qs = <<>> THEN Frac(0, 1) ELSE RAdd(Head(qs), RSum(Tail(qs)))

\* stats.linregress(x, y): the least-squares slope and, last of the five
\* elements of the result, the standard error of the slope.  Any non-finite
\* ordinate makes the covariances, and with them the slope, NaN.  With two
\* points the standard error is set to 0.0; with more it is
\* sqrt((1 - r^2) * ssym / ssxm / (n - 2)), kept here as its radicand
\* unless that is zero.
linregress(x, y) ==
    IF \E k \in 1..Len(y) : y[k].kind # "fin" \/ x[k].kind # "fin"
    THEN [slope |-> NaN, stderr |-> IF Len(x) = 2 THEN Fin(Frac(0, 1)) ELSE NaN]
    ELSE LET n   == Frac(Len(x), 1)
             X   == [k \in 1..Len(x) |-> x[k].q]
             Y   == [k \in 1..Len(y) |-> y[k].q]
             Sx  == RSum(X)
             Sy  == RSum(Y)
             Sxy == RSum([k \in 1..Len(x) |-> RMul(X[k], Y[k])])
             Sxx == RSum([k \in 1..Len(x) |-> RMul(X[k], X[k])])
             Syy == RSum([k \in 1..Len(y) |-> RMul(Y[k], Y[k])])
             Cxy == RSub(RMul(n, Sxy), RMul(Sx, Sy))
             Cxx == RSub(RMul(n, Sxx), RMul(Sx, Sx))
             Cyy == RSub(RMul(n, Syy), RMul(Sy, Sy))
             rad == RDiv(RSub(RMul(Cyy, Cxx), RMul(Cxy, Cxy)),
                         RMul(RMul(Cxx, Cxx), Frac(Len(x) - 2, 1)))
         IN  [slope  |-> Fin(RDiv(Cxy, Cxx)),
              stderr |-> IF Len(x) = 2 \/ rad.num = 0 THEN Fin(Frac(0, 1))
                         ELSE [kind |-> "sqrt", q |-> rad]]

Pad4(n) == IF n < 10 THEN "000" \o ToString(n)
           ELSE IF n < 100 THEN "00" \o ToString(n)
           ELSE IF n < 1000 THEN "0" \o ToString(n)
           ELSE ToString(n)

\* The largest e with 2^e <= a / den, for a, den > 0.
RECURSIVE FloorLog2(_, _)
FloorLog2(a, den) ==
    IF a >= den
    THEN (IF a >= 2 * den THEN 1 + FloorLog2(a, 2 * den) ELSE 0)
    ELSE FloorLog2(2 * a, den) - 1

\* 2^k mod t.
RECURSIVE Pow2Mod(_, _)
Pow2Mod(k, t) == IF k = 0 THEN 1 % t ELSE (2 * Pow2Mod(k - 1, t)) % t

\* n = 2^TwoPart(n) * OddPart(n).
RECURSIVE TwoPart(_)
TwoPart(n) == IF n % 2 = 1 THEN 0 ELSE 1 + TwoPart(n \div 2)

RECURSIVE OddPart(_)
OddPart(n) == IF n % 2 = 1 THEN n ELSE OddPart(n \div 2)

\* Whether the double nearest to a / den (53-bit significand, den not a
\* power of two, a / den in lowest terms) lies above a / den.
DoubleAbove(a, den) ==
    LET t   == OddPart(den)
        k   == 52 - FloorLog2(a, den) - TwoPart(den)
        rho == ((a % t) * Pow2Mod(k, t)) % t
    IN  2 * rho > t

\* f'{slope:.4f}', lines 108-110: the double is rounded to four decimals on
\* its exact binary value.  A decimal tie is exact only for a dyadic value,
\* and is then rounded half to even; otherwise the double nearest to the
\* value decides.
Fmt4(s) ==
    IF s.kind = "nan" THEN "nan"
    ELSE IF s.kind = "-inf" THEN "-inf"
    ELSE IF s.kind = "inf" THEN "inf"
    ELSE LET a   == Abs(s.q.num)
             fl  == (a * 10000) \div s.q.den
             rem == (a * 10000) % s.q.den
             r   == IF 2 * rem < s.q.den THEN fl
                    ELSE IF 2 * rem > s.q.den THEN fl + 1
                    ELSE IF OddPart(s.q.den) = 1
                         THEN (IF fl % 2 = 0 THEN fl ELSE fl + 1)
                    ELSE IF DoubleAbove(a, s.q.den) THEN fl + 1 ELSE fl
         IN  (IF s.q.num < 0 THEN "-" ELSE "")
             \o ToString(r \div 10000) \o "." \o Pad4(r % 10000)

Label(m, s) == m \o "(k=" \o Fmt4(s) \o ")"

----------------------------------------------------------------------------
(* inspect_strong_order, lines 69-118.                                     *)

\* dts = tuple(2 ** -i for i in range(1, n + 1)), line 72.
Dts(n) == [k \in 1..n |-> Frac(1, Pow2(k))]

\* Lines 70-78.
OrderInit ==
    /\ pc = "o_init"
    /\ cfg # None
    /\ batch_size' = OrderBatch
    /\ d' = OrderDim
    /\ ts' = Opaque(<<2>>)
    /\ \E n \in 2..MaxDts : dts' = Dts(n)
    /\ y0' = Ones(OrderBatch, OrderDim)
    /\ sde' = Ex2(OrderDim)
    /\ euler_mses_' = <<>>
    /\ milstein_mses_' = <<>>
    /\ srk_mses_' = <<>>
    /\ pc' = "o_bm"
    /\ Running
    /\ UNCHANGED <<env, svc, files, fig, steps, bm, results, arrays, i, dt, mses,
                   mses_np, slopes>>

\* Line 81.
OrderBm ==
    /\ pc = "o_bm"
    /\ bmCount' = bmCount + 1
    /\ bm' = BrownianPath(bmCount + 1, ZerosLike(y0))
    /\ pc' = "o_for"
    /\ Running
    /\ UNCHANGED <<env, calls, lastRet, files, fig, params, results, arrays, i, dts, dt,
                   series, mses, mses_np, slopes>>

\* Line 81, the constructor raising.
OrderBmFail ==
    /\ pc = "o_bm"
    /\ \E e \in ServiceErrors : Raise(e)
    /\ UNCHANGED <<env, svc, files, fig, locals>>

\* Variant of OrderNext: a new realization is constructed for each step size.
OrderNext_FreshBm ==
    /\ pc = "o_for"
    /\ i < Len(dts)
    /\ i' = i + 1
    /\ dt' = dts[i + 1]
    /\ bmCount' = bmCount + 1
    /\ bm' = BrownianPath(bmCount + 1, ZerosLike(y0))
    /\ pc' = "o_euler"
    /\ Running
    /\ UNCHANGED <<env, calls, lastRet, files, fig, params, results, arrays, dts, series,
                   mses, mses_np, slopes>>

\* Line 83: the next step size is bound to dt.
OrderNext ==
    /\ pc = "o_for"
    /\ i < Len(dts)
    /\ i' = i + 1
    /\ dt' = dts[i + 1]
    /\ pc' = "o_euler"
    /\ Running
    /\ UNCHANGED <<env, svc, files, fig, params, bm, results, arrays, dts, series, mses,
                   mses_np, slopes>>

\* Variant of OrderLoopEnd: the loop may be left after the first step size.
OrderLoopEnd_Early ==
    /\ pc = "o_for"
    /\ i >= 1
    /\ pc' = "o_del"
    /\ Running
    /\ UNCHANGED <<env, svc, files, fig, locals>>

\* Line 83: the step sizes are exhausted.
OrderLoopEnd ==
    /\ pc = "o_for"
    /\ i >= Len(dts)
    /\ pc' = "o_del"
    /\ Running
    /\ UNCHANGED <<env, svc, files, fig, locals>>

OrderAfter(m) ==
    CASE m = "euler"      -> "o_milstein"
      [] m = "milstein"   -> "o_srk"
      [] m = "srk"        -> "o_analytical"
      [] m = "analytical" -> "o_mse"

\* The pair a call on the two-point grid returns: the initial value and a
\* terminal value of the shape of y0.
Returns == {[lib |-> "pair", initial |-> y0, terminal |-> t] :
                t \in Terminals(batch_size, d)}

\* Variant of OrderCall: the first component of the pair is the value kept.
OrderCall_TakeInitial(m) ==
    /\ pc = "o_" \o m
    /\ \E r \in Returns :
          /\ lastRet' = r
          /\ underscore' = r.terminal
          /\ ys_euler'      = IF m = "euler"      THEN r.initial ELSE ys_euler
          /\ ys_milstein'   = IF m = "milstein"   THEN r.initial ELSE ys_milstein
          /\ ys_srk'        = IF m = "srk"        THEN r.initial ELSE ys_srk
          /\ ys_analytical' = IF m = "analytical" THEN r.initial ELSE ys_analytical
    /\ calls' = Append(calls, CallRec("inspect_strong_order", m, "ok"))
    /\ pc' = OrderAfter(m)
    /\ Running
    /\ UNCHANGED <<env, bmCount, files, fig, params, bm, arrays, i, dts, dt, series,
                   mses, mses_np, slopes>>

\* Lines 85-88: "_, ys = call(...)": the pair is unpacked, the second
\* component is the value kept.
OrderCall(m) ==
    /\ pc = "o_" \o m
    /\ \E r \in Returns :
          /\ lastRet' = r
          /\ underscore' = r.initial
          /\ ys_euler'      = IF m = "euler"      THEN r.terminal ELSE ys_euler
          /\ ys_milstein'   = IF m = "milstein"   THEN r.terminal ELSE ys_milstein
          /\ ys_srk'        = IF m = "srk"        THEN r.terminal ELSE ys_srk
          /\ ys_analytical' = IF m = "analytical" THEN r.terminal ELSE ys_analytical
    /\ calls' = Append(calls, CallRec("inspect_strong_order", m, "ok"))
    /\ pc' = OrderAfter(m)
    /\ Running
    /\ UNCHANGED <<env, bmCount, files, fig, params, bm, arrays, i, dts, dt, series,
                   mses, mses_np, slopes>>

\* Variant of OrderCallFail: a failed call is logged and tried again.
OrderCallFail_Retry(m) ==
    /\ pc = "o_" \o m
    /\ \E e \in ServiceErrors :
          calls' = Append(calls, CallRec("inspect_strong_order", m, e))
    /\ UNCHANGED <<env, ctl, bmCount, lastRet, files, fig, locals>>

\* Lines 85-88: the call raising; the error propagates out of the function.
OrderCallFail(m) ==
    /\ pc = "o_" \o m
    /\ \E e \in ServiceErrors :
          /\ calls' = Append(calls, CallRec("inspect_strong_order", m, e))
          /\ Raise(e)
    /\ UNCHANGED <<env, bmCount, lastRet, files, fig, locals>>

\* Lines 90-92, one assignment after the other.  compute_mse fails on
\* batches of different shapes; the error propagates and the assignments
\* already made stay.
OrderMse ==
    /\ pc = "o_mse"
    /\ IF ~MseDefined(ys_euler, ys_analytical)
       THEN /\ Raise("ShapeMismatchError")
            /\ UNCHANGED mses
       ELSE /\ euler_mse' = compute_mse(ys_euler, ys_analytical)
            /\ IF ~MseDefined(ys_milstein, ys_analytical)
               THEN /\ Raise("ShapeMismatchError")
                    /\ UNCHANGED <<milstein_mse, srk_mse>>
               ELSE /\ milstein_mse' = compute_mse(ys_milstein, ys_analytical)
                    /\ IF ~MseDefined(ys_srk, ys_analytical)
                       THEN /\ Raise("ShapeMismatchError")
                            /\ UNCHANGED srk_mse
                       ELSE /\ srk_mse' = compute_mse(ys_srk, ys_analytical)
                            /\ pc' = "o_numpy"
                            /\ Running
    /\ UNCHANGED <<env, svc, files, fig, params, bm, results, arrays, i, dts, dt, series,
                   mses_np, slopes>>

\* Line 94.
OrderToNumpy ==
    /\ pc = "o_numpy"
    /\ euler_mse_' = to_numpy(euler_mse)
    /\ milstein_mse_' = to_numpy(milstein_mse)
    /\ srk_mse_' = to_numpy(srk_mse)
    /\ pc' = "o_append"
    /\ Running
    /\ UNCHANGED <<env, svc, files, fig, params, bm, results, arrays, i, dts, dt, series,
                   mses, slopes>>

\* Variant of OrderAppend: the new errors are put at the front of the lists.
OrderAppend_Front ==
    /\ pc = "o_append"
    /\ euler_mses_' = <<euler_mse_>> \o euler_mses_
    /\ milstein_mses_' = <<milstein_mse_>> \o milstein_mses_
    /\ srk_mses_' = <<srk_mse_>> \o srk_mses_
    /\ pc' = "o_for"
    /\ Running
    /\ UNCHANGED <<env, svc, files, fig, params, bm, results, arrays, i, dts, dt, mses,
                   mses_np, slopes>>

\* Lines 96-98.
OrderAppend ==
    /\ pc = "o_append"
    /\ euler_mses_' = Append(euler_mses_, euler_mse_)
    /\ milstein_mses_' = Append(milstein_mses_, milstein_mse_)
    /\ srk_mses_' = Append(srk_mses_, srk_mse_)
    /\ pc' = "o_for"
    /\ Running
    /\ UNCHANGED <<env, svc, files, fig, params, bm, results, arrays, i, dts, dt, mses,
                   mses_np, slopes>>

\* Line 99.
OrderDel ==
    /\ pc = "o_del"
    /\ euler_mse_' = None
    /\ milstein_mse_' = None
    /\ srk_mse_' = None
    /\ pc' = "o_fit_euler"
    /\ Running
    /\ UNCHANGED <<env, svc, files, fig, params, bm, results, arrays, i, dts, dt, series,
                   mses, slopes>>

FitAfter(m) ==
    CASE m = "euler"    -> "o_fit_milstein"
      [] m = "milstein" -> "o_fit_srk"
      [] m = "srk"      -> "o_plot"

SeriesOf(m) ==
    CASE m = "euler"    -> euler_mses_
      [] m = "milstein" -> milstein_mses_
      [] m = "srk"      -> srk_mses_

\* Lines 103-105: one fit of (log dt, log error / 2).  The result is
\* unpacked as "slope, _, _, _, _": the local _ is rebound in turn to the
\* intercept, the r value, the p value and the standard error, which it
\* holds after the statement.
OrderFit(m) ==
    /\ pc = "o_fit_" \o m
    /\ LET k == linregress(log(dts), Halve(log(SeriesOf(m))))
       IN  /\ euler_slope'    = IF m = "euler"    THEN k.slope ELSE euler_slope
           /\ milstein_slope' = IF m = "milstein" THEN k.slope ELSE milstein_slope
           /\ srk_slope'      = IF m = "srk"      THEN k.slope ELSE srk_slope
           /\ underscore'     = k.stderr
    /\ pc' = FitAfter(m)
    /\ Running
    /\ UNCHANGED <<env, svc, files, fig, params, bm, ys_euler, ys_milstein, ys_srk,
                   ys_analytical, arrays, i, dts, dt, series, mses, mses_np>>

\* Lines 107-113: the figure with one labelled curve per scheme.
OrderPlot ==
    /\ pc = "o_plot"
    /\ fig' = [lib |-> "figure",
               curves |-> <<Label("euler", euler_slope),
                            Label("milstein", milstein_slope),
                            Label("srk", srk_slope)>>]
    /\ pc' = "o_mkdir"
    /\ Running
    /\ UNCHANGED <<env, svc, files, locals>>

\* Lines 115-116.
OrderMkdir ==
    /\ pc = "o_mkdir"
    /\ dirExists' = TRUE
    /\ pc' = "o_save"
    /\ Running
    /\ UNCHANGED <<cfg, svc, files, fig, locals>>

\* Lines 117-118.
OrderSave ==
    /\ pc = "o_save"
    /\ files' = Append(files, "rate")
    /\ pc' = "o_return"
    /\ Running
    /\ UNCHANGED <<env, svc, fig, locals>>

\* The function returns to line 127 and the script ends with status 0.
OrderReturn ==
    /\ pc = "o_return"
    /\ DropFrame
    /\ fig' = None
    /\ pc' = "done"
    /\ exitCode' = 0
    /\ UNCHANGED <<env, svc, files, exc>>

----------------------------------------------------------------------------
Next ==
    \/ MainConfigure
    \/ MainCallSample
    \/ SampleInit
    \/ SampleBm
    \/ SampleBmFail
    \/ \E m \in Methods : SampleCall(m)
    \/ \E m \in Methods : SampleCallFail(m)
    \/ SampleSqueeze
    \/ SampleSqueezeFail
    \/ SampleToNumpy
    \/ SampleMkdir
    \/ SamplePlot
    \/ SamplePlotFail
    \/ SampleLoopEnd
    \/ SampleReturn
    \/ MainCallOrder
    \/ OrderInit
    \/ OrderBm
    \/ OrderBmFail
    \/ OrderNext
    \/ OrderLoopEnd
    \/ \E m \in Methods : OrderCall(m)
    \/ \E m \in Methods : OrderCallFail(m)
    \/ OrderMse
    \/ OrderToNumpy
    \/ OrderAppend
    \/ OrderDel
    \/ \E m \in Schemes : OrderFit(m)
    \/ OrderPlot
    \/ OrderMkdir
    \/ OrderSave
    \/ OrderReturn

Spec == Init /\ [][Next]_vars

----------------------------------------------------------------------------
(* The error metric on its own: lines 90-98 of the first pass, entered     *)
(* with the four terminal values drawn independently from every batch of a *)
(* few small shapes, the rest of the state as the program has it at line   *)
(* 90 of the first pass.                                                   *)
MetricMaxEntry == 1

MetricShapes == {<<1, 1>>, <<1, 2>>, <<2, 1>>}

Batches(shape) ==
    {[lib |-> "torch", shape |-> shape, val |-> v] :
        v \in [Idx(shape[1], shape[2]) -> 0..MetricMaxEntry]}

MetricBatches == UNION {Batches(sh) : sh \in MetricShapes}

\* The log of a path comparison with batch_size, d = 2, 1 on three grid points
\* followed by the four calls of the first pass.
MetricCalls(y, w) ==
    LET sy == Ones(2, 1)
        sw == BrownianPath(1, ZerosLike(sy))
        S(m) == CallWith("inspect_sample", m, Ex2(1), sy, Opaque(<<3>>), Frac(1, 10),
                         sw, 0, "ok")
        O(m) == CallWith("inspect_strong_order", m, Ex2(y.shape[2]), y, Opaque(<<2>>),
                         Frac(1, 2), w, 1, "ok")
    IN  <<S("euler"), S("milstein"), S("srk"), S("analytical"),
          O("euler"), O("milstein"), O("srk"), O("analytical")>>

InitMetric ==
    \E A \in MetricBatches, E \in MetricBatches :
      \E M \in MetricBatches, K \in MetricBatches :
        /\ pc = "o_mse"
        /\ cfg = [lib |-> "config", device |-> "cuda if available else cpu",
                  dtype |-> "float64", seed |-> 0]
        /\ exc = None
        /\ exitCode = -1
        /\ bmCount = 2
        /\ dirExists = TRUE
        /\ files = <<"0", "1">>
        /\ fig = None
        /\ batch_size = A.shape[1] /\ d = A.shape[2] /\ steps = 0
        /\ ts = Opaque(<<2>>)
        /\ y0 = Ones(A.shape[1], A.shape[2])
        /\ sde = Ex2(A.shape[2])
        /\ bm = BrownianPath(2, ZerosLike(y0))
        /\ calls = MetricCalls(y0, bm)
        /\ lastRet = [lib |-> "pair", initial |-> y0, terminal |-> A]
        /\ underscore = y0
        /\ ys_euler = E /\ ys_milstein = M /\ ys_srk = K /\ ys_analytical = A
        /\ ts_ = None
        /\ ys_euler_ = None /\ ys_milstein_ = None /\ ys_srk_ = None
        /\ ys_analytical_ = None
        /\ i = 1 /\ dts = Dts(2) /\ dt = Frac(1, 2)
        /\ euler_mses_ = <<>> /\ milstein_mses_ = <<>> /\ srk_mses_ = <<>>
        /\ euler_mse = None /\ milstein_mse = None /\ srk_mse = None
        /\ euler_mse_ = None /\ milstein_mse_ = None /\ srk_mse_ = None
        /\ euler_slope = None /\ milstein_slope = None /\ srk_slope = None

NextMetric ==
    \/ OrderMse
    \/ OrderToNumpy
    \/ OrderAppend

SpecMetric == InitMetric /\ [][NextMetric]_vars

----------------------------------------------------------------------------
(* Vocabulary of the properties.                                           *)

SamplePcs == {"s_init", "s_bm", "s_euler", "s_milstein", "s_srk", "s_analytical",
              "s_squeeze", "s_numpy", "s_mkdir", "s_for", "s_return"}
OrderCallPcs == {"o_euler", "o_milstein", "o_srk", "o_analytical"}
OrderBodyPcs == OrderCallPcs \cup {"o_mse", "o_numpy", "o_append"}
OrderTailPcs == {"o_del", "o_fit_euler", "o_fit_milstein", "o_fit_srk", "o_plot",
                 "o_mkdir", "o_save", "o_return"}
OrderPcs == {"o_init", "o_bm", "o_for"} \cup OrderBodyPcs \cup OrderTailPcs

\* The statement the run is at, or was at when it failed.
Where == IF pc = "failed" THEN exc.at ELSE pc

CallsOf(fn) == SelectSeq(calls, LAMBDA c : c.fn = fn)
OrderCalls  == CallsOf("inspect_strong_order")
SampleCalls == CallsOf("inspect_sample")

Names(n) == [k \in 1..n |-> FileName(k - 1)]
Count(seq, x) == Cardinality({k \in 1..Len(seq) : seq[k] = x})
IsPrefix(a, b) == Len(a) <= Len(b) /\ \A k \in 1..Len(a) : b[k] = a[k]
HasZero(errs) == \E k \in 1..Len(errs) : errs[k].val.num = 0
AllSeries == {euler_mses_, milstein_mses_, srk_mses_}
Bound(x) == x # None
Finite(k) == Bound(k) /\ k.kind = "fin"

----------------------------------------------------------------------------
\* C1: within one experiment the noise realization is constructed once,
\* before the first call, and every integration and analytical call of that
\* experiment, for every step size, is passed that same realization.
C1_SharedRealization ==
    /\ \A k \in 1..Len(calls) :
          /\ calls[k].bm.lib = "bm"
          /\ calls[k].bm.id = (IF calls[k].fn = "inspect_sample" THEN 1 ELSE 2)
          /\ Where \in SamplePcs \cup OrderPcs =>
                (calls[k].fn = (IF Where \in SamplePcs THEN "inspect_sample"
                                ELSE "inspect_strong_order") => calls[k].bm = bm)
    /\ Where \in SamplePcs => bmCount = (IF Bound(bm) THEN 1 ELSE 0)
    /\ Where \in OrderPcs => bmCount = (IF Bound(bm) THEN 2 ELSE 1)
    /\ bmCount <= 2

C1_Witness ==
    /\ pc = "o_del"
    /\ Len(OrderCalls) = 4 * Len(dts)
    /\ Len(SampleCalls) = 4
    /\ Len(dts) >= 2

C2_DoneSteps == IF Where \in OrderBodyPcs THEN i - 1 ELSE i

C2_State ==
    Where \in OrderPcs =>
        /\ \A errs \in AllSeries : Len(errs) = C2_DoneSteps
        /\ Where \in OrderTailPcs => C2_DoneSteps = Len(dts)
        /\ (Where \in {"o_for"} \cup OrderTailPcs /\ i >= 1) =>
              /\ euler_mses_[i] = to_numpy(compute_mse(ys_euler, ys_analytical))
              /\ milstein_mses_[i] = to_numpy(compute_mse(ys_milstein, ys_analytical))
              /\ srk_mses_[i] = to_numpy(compute_mse(ys_srk, ys_analytical))
              /\ dt = dts[i]
              /\ LET oc == OrderCalls
                 IN  /\ Len(oc) = 4 * i
                     /\ \A k \in (4 * i - 3)..(4 * i) :
                           /\ oc[k].iter = i
                           /\ oc[k].outcome = "ok"
                           /\ oc[k].method # "analytical" => oc[k].dt = dts[i]

C2_Step ==
    (pc \in OrderPcs /\ pc # "o_return") =>
        /\ IsPrefix(euler_mses_, euler_mses_')
        /\ IsPrefix(milstein_mses_, milstein_mses_')
        /\ IsPrefix(srk_mses_, srk_mses_')

\* C2: after k step sizes each error series has k entries, the newest entry
\* is the error of the results obtained with dts[k], entries once recorded
\* keep their place, and after the loop every series is as long as dts.
C2_IndexAligned == []C2_State /\ [][C2_Step]_vars

C2_Witness ==
    /\ pc = "o_del"
    /\ Len(euler_mses_) = Len(dts)
    /\ Len(dts) >= 2
    /\ euler_mses_[1] # euler_mses_[2]

\* C3: a completed Path Comparison run has arranged every result with the
\* output dimension as its leading index and has written exactly d files,
\* named 0..d-1, whatever the batch size.
C3_AsStated ==
    pc = "s_return" =>
        /\ \A a \in {ys_euler_, ys_milstein_, ys_srk_, ys_analytical_} : a.shape[1] = d
        /\ files = Names(d)

\* C4: with batch size 1 and dimensionality 1 the Path Comparison run is
\* not stopped by an error of its own and, completed, has written exactly
\* one image.
C4_OneByOne ==
    (Where \in SamplePcs /\ batch_size = 1 /\ d = 1) =>
        /\ pc = "failed" => exc.err \in ServiceErrors
        /\ pc = "s_return" => files = <<"0">>

\* C5: no fitted slope and no plot label is non-finite: an error of zero is
\* rejected or floored before its logarithm is taken.
C5_NoNonFiniteSlope ==
    /\ \A k \in {euler_slope, milstein_slope, srk_slope} : Bound(k) => k.kind = "fin"
    /\ Bound(fig) =>
          \A k \in 1..Len(fig.curves) :
              \A m \in Schemes : fig.curves[k] # Label(m, NaN)

C6_State ==
    /\ (pc # "main" \/ calls # <<>> \/ files # <<>>) => Bound(cfg)
    /\ (Where \in OrderPcs \cup {"main_order", "done"}) =>
          /\ Len(SampleCalls) = 4
          /\ \A k \in 1..4 : calls[k].fn = "inspect_sample" /\ calls[k].outcome = "ok"
          /\ Len(files) >= 1 /\ files[1] = "0"
    /\ (pc = "failed" /\ exc.at \in SamplePcs) =>
          /\ OrderCalls = <<>>
          /\ Count(files, "rate") = 0
          /\ bmCount <= 1
    /\ (pc = "failed" /\ exc.at \in OrderPcs) =>
          /\ Len(files) >= 1
          /\ files = Names(Len(files))
    /\ exitCode = (IF pc = "failed" THEN 1 ELSE IF pc = "done" THEN 0 ELSE -1)
    /\ pc = "failed" <=> Bound(exc)

C6_Step == IsPrefix(files, files')

\* C6: configuration precedes every experiment step; the convergence
\* experiment starts only after the path comparison has completed; a failed
\* path comparison leaves no convergence call and no 'rate' image; a failed
\* convergence experiment leaves the images of the path comparison in place;
\* a failed run ends with status 1 and files once written stay written.
C6_Sequencing == []C6_State /\ [][C6_Step]_vars

C6_Witness ==
    /\ pc = "failed"
    /\ exc.at \in OrderCallPcs
    /\ Len(files) >= 2
    /\ i = 2

\* C7: the fits are made only when every step size has been processed, on
\* as many points as there are step sizes; a run that reaches the end has
\* three slopes, finite when all errors are positive, and exactly one image
\* 'rate', written when the directory exists and all three slopes exist.
C7_FitsThenRate ==
    /\ (Where \in OrderTailPcs) =>
          /\ i = Len(dts)
          /\ \A errs \in AllSeries :
                /\ Len(errs) = Len(dts)
                /\ Len(Halve(log(errs))) = Len(log(dts))
    /\ \A k \in {euler_slope, milstein_slope, srk_slope} :
          Bound(k) => Where \in OrderTailPcs
    /\ Count(files, "rate") <= 1
    /\ Count(files, "rate") = 1 =>
          /\ pc \in {"o_return", "done"}
          /\ dirExists
          /\ files[Len(files)] = "rate"
    /\ pc \in {"o_save", "o_return"} =>
          /\ Bound(euler_slope) /\ Bound(milstein_slope) /\ Bound(srk_slope)
          /\ Len(dts) >= 2
          /\ (\A errs \in AllSeries : ~HasZero(errs)) =>
                Finite(euler_slope) /\ Finite(milstein_slope) /\ Finite(srk_slope)
    /\ pc \in {"o_return", "done"} => Count(files, "rate") = 1

C7_Witness ==
    /\ pc = "o_return"
    /\ Len(dts) >= 2
    /\ \A errs \in AllSeries : Len(errs) = Len(dts) /\ ~HasZero(errs)
    /\ Finite(euler_slope) /\ Finite(milstein_slope) /\ Finite(srk_slope)
    /\ Count(files, "rate") = 1

\* C8: in the convergence experiment each service is called at most once
\* per step size; a call that raises is the last call made, nothing is
\* appended for its step size, no slope is fitted, no 'rate' image is
\* written, and the run ends with the error the service raised.
C8_NoRetry ==
    LET oc == OrderCalls
    IN  /\ \A j, k \in 1..Len(oc) :
              (oc[j].method = oc[k].method /\ oc[j].iter = oc[k].iter) => j = k
        /\ \A k \in 1..Len(calls) : calls[k].outcome # "ok" =>
              /\ k = Len(calls)
              /\ pc = "failed"
              /\ exc = [err |-> calls[k].outcome, at |-> exc.at]
        /\ (pc = "failed" /\ exc.at \in OrderCallPcs \cup {"o_bm"}) =>
              /\ exc.err \in ServiceErrors
              /\ exc.at \in OrderCallPcs =>
                    /\ oc # <<>>
                    /\ oc[Len(oc)].outcome = exc.err
                    /\ exc.at = "o_" \o oc[Len(oc)].method
                    /\ \A errs \in AllSeries : Len(errs) = i - 1
              /\ exc.at = "o_bm" => oc = <<>>
              /\ ~Bound(euler_slope) /\ ~Bound(milstein_slope) /\ ~Bound(srk_slope)
              /\ Count(files, "rate") = 0

C8_Witness ==
    /\ pc = "failed"
    /\ exc.at = "o_srk"
    /\ i = 2
    /\ Len(euler_mses_) = 1

\* The sum over every batch index b and dimension index j of the squared
\* difference of two batches, taken row by row.
RECURSIVE RowSum(_, _, _, _)
RowSum(x, y, b, j) ==
    IF j = 0 THEN 0
    ELSE (x.val[<<b, j>>] - y.val[<<b, j>>]) * (x.val[<<b, j>>] - y.val[<<b, j>>])
         + RowSum(x, y, b, j - 1)

RECURSIVE BatchSum(_, _, _)
BatchSum(x, y, b) ==
    IF b = 0 THEN 0 ELSE RowSum(x, y, b, x.shape[2]) + BatchSum(x, y, b - 1)

C9_Pairs == <<<<ys_euler, euler_mse, euler_mse_, euler_mses_>>,
              <<ys_milstein, milstein_mse, milstein_mse_, milstein_mses_>>,
              <<ys_srk, srk_mse, srk_mse_, srk_mses_>>>>

C9_Agrees(k) == C9_Pairs[k][1].shape = ys_analytical.shape

C9_ShapesAgree == \A k \in 1..3 : C9_Agrees(k)

\* The error e recorded for the terminal value x of a scheme.
C9_Metric(x, e) ==
    /\ e.shape = <<>>
    /\ e.val.den > 0
    /\ e.val.num >= 0
    /\ e.val.num * batch_size * d = e.val.den * BatchSum(x, ys_analytical, batch_size)
    /\ (x = ys_analytical) <=> (e.val.num = 0)

C10_State ==
    Where \in OrderPcs =>
        /\ \A k \in 1..Len(OrderCalls) :
              LET c == OrderCalls[k]
              IN  /\ c.sde = sde /\ c.y0 = y0 /\ c.ts = ts
                  /\ c.ts.shape = <<2>>
                  /\ c.iter \in 1..Len(dts)
                  /\ c.dt = (IF c.method = "analytical" THEN None ELSE dts[c.iter])
        /\ pc = "o_milstein" => ys_euler = lastRet.terminal
        /\ pc = "o_srk" => ys_milstein = lastRet.terminal
        /\ pc = "o_analytical" => ys_srk = lastRet.terminal
        /\ pc \in {"o_mse", "o_numpy", "o_append"} => ys_analytical = lastRet.terminal
        /\ pc \in OrderBodyPcs \ {"o_euler"} => underscore = lastRet.initial

C10_Step ==
    (pc \in {"o_for"} \cup OrderBodyPcs) =>
        UNCHANGED <<y0, ts, dts, sde, batch_size, d, bm, bmCount, files, fig, env, slopes>>

\* C10: every call of the convergence experiment is given the same dynamics,
\* the same y0 and the same two-point grid; the scheme calls of one pass are
\* given that pass's step size; of a returned pair only the terminal value is
\* kept as a result; a pass leaves y0, the grid, the step sizes, the
\* dynamics, the realization and the files as they were.
C10_OnlyStepSizeVaries == []C10_State /\ [][C10_Step]_vars

C10_Witness ==
    /\ pc = "o_append"
    /\ i = 2
    /\ ys_euler # y0
    /\ ys_analytical = y0
    /\ Len(OrderCalls) = 8

====
